---- MODULE Spec2Model ----
(***************************************************************************)
(* Token accounting of api/tokens.py: image token estimation               *)
(* (calculate_image_tokens), message token counting                        *)
(* (num_tokens_from_messages) and truncation to a token budget             *)
(* (split_tokens_from_content).                                            *)
(***************************************************************************)
EXTENDS Integers, Sequences, FiniteSets, TLC

Max(a, b) == IF a >= b THEN a ELSE b
Min(a, b) == IF a <= b THEN a ELSE b

(***************************************************************************)
(* Python float arithmetic.  `2048 / max_dimension` is the correctly       *)
(* rounded IEEE-754 binary64 quotient of two ints, `width * scale_factor`  *)
(* the correctly rounded binary64 product, and int() truncates toward      *)
(* zero.  A float is [mant |-> bits, exp |-> e], value mant * 2^exp, the   *)
(* significand a sequence of bits, most significant first.                 *)
(***************************************************************************)
MantissaBits == 53

RECURSIVE Pow2(_)
Pow2(n) == IF n = 0 THEN 1 ELSE 2 * Pow2(n - 1)

RECURSIVE BitsToNat(_)
BitsToNat(bits) ==
    IF bits = <<>> THEN 0
    ELSE 2 * BitsToNat(SubSeq(bits, 1, Len(bits) - 1)) + bits[Len(bits)]

\* bit k of n, bit 0 the least significant
BitOf(n, k) == (n \div Pow2(k)) % 2

StripLeadingZeros(bits) ==
    LET ones == {i \in 1..Len(bits) : bits[i] = 1}
    IN  IF ones = {} THEN <<>>
        ELSE SubSeq(bits, CHOOSE i \in ones : \A j \in ones : i <= j, Len(bits))

\* bits + 1: the trailing run of 1s becomes 0s and the 0 before it a 1
IncBits(bits) ==
    LET zeros == {i \in 1..Len(bits) : bits[i] = 0}
    IN  IF zeros = {} THEN <<1>> \o [i \in 1..Len(bits) |-> 0]
        ELSE LET k == CHOOSE i \in zeros : \A j \in zeros : j <= i
             IN  [i \in 1..Len(bits) |-> IF i < k THEN bits[i] ELSE IF i = k THEN 1 ELSE 0]

\* 2^k mod m, by repeated squaring
RECURSIVE ModPow2(_, _)
ModPow2(k, m) ==
    IF k = 0 THEN 1 % m
    ELSE LET h == ModPow2(k \div 2, m)
         IN  (((h * h) % m) * (IF k % 2 = 1 THEN 2 ELSE 1)) % m

\* the remainder of the long division r/m (0 <= r < m) after i quotient bits
QuotRem(r, m, i) == (r * ModPow2(i, m)) % m

\* the first n bits of the binary fraction r/m
QuotBits(r, m, n) == [i \in 1..n |-> (2 * QuotRem(r, m, i - 1)) \div m]

\* number of zero bits of the binary fraction a/m (0 < a < m) before its first 1
RECURSIVE LeadingZeros(_, _)
LeadingZeros(a, m) == IF 2 * a >= m THEN 0 ELSE 1 + LeadingZeros(2 * a, m)

\* a / m for ints 0 < a < m, rounded to nearest, ties to even
FloatDiv(a, m) ==
    LET z    == LeadingZeros(a, m)
        r0   == a * Pow2(z)
        bits == QuotBits(r0, m, MantissaBits)
        rem  == QuotRem(r0, m, MantissaBits)
        up   == 2 * rem > m \/ (2 * rem = m /\ bits[MantissaBits] = 1)
    IN  [mant |-> IF up THEN IncBits(bits) ELSE bits, exp |-> 0 - (z + MantissaBits)]

\* the exact product w * bits is computed limb by limb, LimbBits bits a limb
LimbBits == 15

NumLimbs(bits) == (Len(bits) + LimbBits - 1) \div LimbBits

\* limb j of bits, limb 1 the least significant
Limb(bits, j) ==
    BitsToNat(SubSeq(bits, Max(1, Len(bits) - j * LimbBits + 1),
                     Len(bits) - (j - 1) * LimbBits))

\* the limbs of w * bits from limb j on, most significant first
RECURSIVE MulLimbs(_, _, _, _)
MulLimbs(bits, w, j, carry) ==
    IF j > NumLimbs(bits) THEN <<carry>>
    ELSE LET t == Limb(bits, j) * w + carry
         IN  MulLimbs(bits, w, j + 1, t \div Pow2(LimbBits)) \o <<t % Pow2(LimbBits)>>

\* the exact product w * bits (1 <= w < 2^16), as bits
MulBits(bits, w) ==
    LET limbs == MulLimbs(bits, w, 1, 0)
    IN  StripLeadingZeros(
            [p \in 1..(Len(limbs) * LimbBits) |->
                BitOf(limbs[((p - 1) \div LimbBits) + 1], LimbBits - 1 - ((p - 1) % LimbBits))])

\* a significand of any length rounded to MantissaBits bits, ties to even
RoundFloat(f) ==
    IF Len(f.mant) <= MantissaBits THEN f
    ELSE LET top  == SubSeq(f.mant, 1, MantissaBits)
             rest == SubSeq(f.mant, MantissaBits + 1, Len(f.mant))
             more == \E i \in 2..Len(rest) : rest[i] = 1
             up   == rest[1] = 1 /\ (more \/ top[MantissaBits] = 1)
         IN  [mant |-> IF up THEN IncBits(top) ELSE top, exp |-> f.exp + Len(rest)]

\* int w (w >= 1) times float f
FloatMul(w, f) == RoundFloat([mant |-> MulBits(f.mant, w), exp |-> f.exp])

\* int(f) for f > 0
FloatToInt(f) ==
    IF f.exp >= 0 THEN BitsToNat(f.mant) * Pow2(f.exp)
    ELSE IF Len(f.mant) + f.exp <= 0 THEN 0
    ELSE BitsToNat(SubSeq(f.mant, 1, Len(f.mant) + f.exp))

\* int(dim * scale_factor)
ScaleDim(dim, scale_factor) ==
    IF dim = 0 THEN 0 ELSE FloatToInt(FloatMul(dim, scale_factor))

(***************************************************************************)
(* Inputs of the model.                                                    *)
(***************************************************************************)
MaxDim == 4097
DimStep == 256
SampleDims == {100, 1107, 2215}
Dims == {d \in 0..MaxDim : d % DimStep \in {0, 1, DimStep - 1}} \cup SampleDims
Details == {"low", "high", "auto"}

MaxTextLen == 3
MaxTokens == 3
MaxMessages == 3

VARIABLES
    image_args,       \* <<width, height>> as passed to calculate_image_tokens
    width, height,    \* the locals width and height, reassigned by each stage
    detail,
    total_tokens,     \* the value calculate_image_tokens returns
    ipc,              \* position in calculate_image_tokens
    model,            \* the model argument of the two text operations
    encoding,         \* the encoding resolved for model
    content,          \* the content argument of split_tokens_from_content
    max_tokens,
    encoded_content,
    split_result,     \* the tuple split_tokens_from_content returns
    spc,              \* position in split_tokens_from_content
    messages,         \* the messages argument of num_tokens_from_messages
    tokens_per_message,
    num_tokens,
    msg_i, field_i,   \* positions of the two nested for loops
    error,            \* the exception num_tokens_from_messages raised, if any
    mpc               \* position in num_tokens_from_messages

image_vars == <<image_args, width, height, detail, total_tokens, ipc>>
split_vars == <<content, max_tokens, encoded_content, split_result, spc>>
msg_vars == <<messages, tokens_per_message, num_tokens, msg_i, field_i, error, mpc>>
vars == <<image_vars, split_vars, msg_vars, model, encoding>>

ImageIdle ==
    /\ image_args = <<0, 0>> /\ width = 0 /\ height = 0 /\ detail = "low"
    /\ total_tokens = 0 /\ ipc = "idle"

SplitIdle ==
    /\ content = <<>> /\ max_tokens = 0 /\ encoded_content = <<>>
    /\ split_result = <<>> /\ spc = "idle"

MessagesIdle ==
    /\ messages = <<>> /\ tokens_per_message = 0 /\ num_tokens = 0
    /\ msg_i = 0 /\ field_i = 0 /\ error = "" /\ mpc = "idle"

(***************************************************************************)
(* calculate_image_tokens                                                  *)
(***************************************************************************)
LowDetailTokens == 85
MaxSide == 2048
MinSide == 768
MaskSize == 512
tokens_per_mask == 170
BaseTokens == 85

IsLowDetail_Upper(d) == d = "LOW"

IsLowDetail(d) == d = "low"

ScaleBoth(w, h, scale_factor) == <<ScaleDim(w, scale_factor), ScaleDim(h, scale_factor)>>

ResizeMaxSide_Skip(w, h) == <<w, h>>

\* stage one: the larger side limited to MaxSide
ResizeMaxSide(w, h) ==
    LET max_dimension == Max(w, h)
    IN  IF max_dimension > MaxSide
        THEN ScaleBoth(w, h, FloatDiv(MaxSide, max_dimension))
        ELSE <<w, h>>

\* stage two: the smaller side limited to MinSide
ResizeMinSide(w, h) ==
    LET min_dimension == Min(w, h)
    IN  IF min_dimension > MinSide
        THEN ScaleBoth(w, h, FloatDiv(MinSide, min_dimension))
        ELSE <<w, h>>

\* math.ceil(d / 512): d / 512 is exact in binary64, 512 being a power of two
NumMasks(d) == (d + MaskSize - 1) \div MaskSize

MaskTokens(w, h) == NumMasks(w) * NumMasks(h) * tokens_per_mask + BaseTokens

InitImage ==
    /\ image_args \in Dims \X Dims
    /\ width = image_args[1]
    /\ height = image_args[2]
    /\ detail \in Details
    /\ total_tokens = 0
    /\ ipc = "detail"
    /\ model = "" /\ encoding = ""
    /\ SplitIdle /\ MessagesIdle

ReturnLow ==
    /\ ipc = "detail"
    /\ IsLowDetail(detail)
    /\ total_tokens' = LowDetailTokens
    /\ ipc' = "done"
    /\ UNCHANGED <<image_args, width, height, detail, split_vars, msg_vars, model, encoding>>

StageMaxSide ==
    /\ ipc = "detail"
    /\ ~IsLowDetail(detail)
    /\ \E resized \in {ResizeMaxSide(width, height)} :
          width' = resized[1] /\ height' = resized[2]
    /\ ipc' = "min_side"
    /\ UNCHANGED <<image_args, detail, total_tokens, split_vars, msg_vars, model, encoding>>

StageMinSide ==
    /\ ipc = "min_side"
    /\ \E resized \in {ResizeMinSide(width, height)} :
          width' = resized[1] /\ height' = resized[2]
    /\ ipc' = "masks"
    /\ UNCHANGED <<image_args, detail, total_tokens, split_vars, msg_vars, model, encoding>>

ReturnMasks ==
    /\ ipc = "masks"
    /\ total_tokens' = MaskTokens(width, height)
    /\ ipc' = "done"
    /\ UNCHANGED <<image_args, width, height, detail, split_vars, msg_vars, model, encoding>>

NextImage == ReturnLow \/ StageMaxSide \/ StageMinSide \/ ReturnMasks

SpecImage == InitImage /\ [][NextImage]_vars

(***************************************************************************)
(* The tiktoken encodings.  A text is a sequence of characters; an         *)
(* encoding maps it to token ids by byte-pair merging: ids 1 and 2 are the *)
(* single characters, id 3 is the one pair the encoding merges.  decode    *)
(* concatenates the text of each token.                                    *)
(***************************************************************************)
Chars == {"a", "b"}

RECURSIVE SeqsUpTo(_, _)
SeqsUpTo(S, n) ==
    IF n = 0 THEN {<<>>}
    ELSE LET shorter == SeqsUpTo(S, n - 1)
         IN  shorter \cup {Append(t, c) : t \in shorter, c \in S}

Texts == SeqsUpTo(Chars, MaxTextLen)

Models == {"gpt-3.5-turbo-0301", "text-davinci-003", "", "my-model"}

\* tiktoken.encoding_for_model: the models it knows
KnownModels == {"gpt-3.5-turbo-0301", "text-davinci-003"}
EncodingOfKnownModel(m) == IF m = "text-davinci-003" THEN "p50k_base" ELSE "cl100k_base"

\* try: encoding_for_model(model)  except KeyError: get_encoding("cl100k_base")
ResolveEncoding(m) == IF m \in KnownModels THEN EncodingOfKnownModel(m) ELSE "cl100k_base"

MergedPair(enc) == IF enc = "cl100k_base" THEN <<"a", "b">> ELSE <<"b", "b">>

TokenText(enc, tok) == IF tok = 1 THEN <<"a">> ELSE IF tok = 2 THEN <<"b">> ELSE MergedPair(enc)

RECURSIVE Encode(_, _)
Encode(enc, text) ==
    IF text = <<>> THEN <<>>
    ELSE IF Len(text) >= 2 /\ SubSeq(text, 1, 2) = MergedPair(enc)
         THEN <<3>> \o Encode(enc, SubSeq(text, 3, Len(text)))
         ELSE <<(IF text[1] = "a" THEN 1 ELSE 2)>> \o Encode(enc, Tail(text))

RECURSIVE Decode(_, _)
Decode(enc, toks) ==
    IF toks = <<>> THEN <<>> ELSE TokenText(enc, Head(toks)) \o Decode(enc, Tail(toks))

\* seq[:n] of Python: a negative n counts from the end
SlicePrefix(seq, n) ==
    IF n >= 0 THEN SubSeq(seq, 1, Min(n, Len(seq)))
    ELSE SubSeq(seq, 1, Max(0, Len(seq) + n))

(***************************************************************************)
(* split_tokens_from_content                                               *)
(***************************************************************************)
ReachesLimit_Strict(len_encoded_content, limit) == len_encoded_content > limit

ReachesLimit(len_encoded_content, limit) == len_encoded_content >= limit

TruncatedResult_Stop(enc, encoded, limit) ==
    [content |-> Decode(enc, SlicePrefix(encoded, limit)), tokens |-> limit, reason |-> "stop"]

TruncatedResult(enc, encoded, limit) ==
    [content |-> Decode(enc, SlicePrefix(encoded, limit)), tokens |-> limit, reason |-> "length"]

WholeResult(text, encoded) ==
    [content |-> text, tokens |-> Len(encoded), reason |-> "stop"]

InitSplit ==
    /\ content \in Texts
    /\ max_tokens \in (0 - MaxTokens)..MaxTokens
    /\ model \in Models
    /\ encoding = ""
    /\ encoded_content = <<>>
    /\ split_result = <<>>
    /\ spc = "encode"
    /\ ImageIdle /\ MessagesIdle

SplitEncode ==
    /\ spc = "encode"
    /\ encoding' = ResolveEncoding(model)
    /\ encoded_content' = Encode(ResolveEncoding(model), content)
    /\ spc' = "compare"
    /\ UNCHANGED <<content, max_tokens, split_result, model, image_vars, msg_vars>>

SplitTruncate ==
    /\ spc = "compare"
    /\ ReachesLimit(Len(encoded_content), max_tokens)
    /\ split_result' = TruncatedResult(encoding, encoded_content, max_tokens)
    /\ spc' = "done"
    /\ UNCHANGED <<content, max_tokens, encoded_content, model, encoding, image_vars, msg_vars>>

SplitWhole ==
    /\ spc = "compare"
    /\ ~ReachesLimit(Len(encoded_content), max_tokens)
    /\ split_result' = WholeResult(content, encoded_content)
    /\ spc' = "done"
    /\ UNCHANGED <<content, max_tokens, encoded_content, model, encoding, image_vars, msg_vars>>

NextSplit == SplitEncode \/ SplitTruncate \/ SplitWhole

SpecSplit == InitSplit /\ [][NextSplit]_vars

(***************************************************************************)
(* num_tokens_from_messages.  A message is its fields in dict order, each  *)
(* [key, value]; a value is a str, a list of content parts, or something   *)
(* else (None, a number, a dict).  A content part is a dict seen through   *)
(* item.get("type") and item.get("text"), the latter None when absent.     *)
(***************************************************************************)
StrVal(t) == [kind |-> "str", text |-> t, items |-> <<>>]
ListVal(items) == [kind |-> "list", text |-> <<>>, items |-> items]
OtherVal == [kind |-> "other", text |-> <<>>, items |-> <<>>]

TextPart(t) == [type |-> "text", text |-> StrVal(t)]
TextPartNoText == [type |-> "text", text |-> OtherVal]
ImagePart == [type |-> "image_url", text |-> OtherVal]
AudioPart == [type |-> "input_audio", text |-> OtherVal]

SampleTexts == {<<>>, <<"a", "b">>, <<"b", "b", "a">>}

SamplePartLists ==
    { <<>>,
      <<TextPart(<<"a", "b">>)>>,
      <<ImagePart>>,
      <<TextPart(<<"a", "b">>), ImagePart>>,
      <<ImagePart, TextPart(<<"b", "b">>), ImagePart>>,
      <<AudioPart, TextPart(<<"b">>)>>,
      <<TextPartNoText>>,
      <<TextPart(<<"a">>), ImagePart, TextPartNoText>> }

SampleContents ==
    {StrVal(t) : t \in SampleTexts} \cup {ListVal(p) : p \in SamplePartLists} \cup {OtherVal}

Field(k, v) == [key |-> k, value |-> v]
RoleField == Field("role", StrVal(<<"a", "b", "b">>))

SampleMessages ==
    {<<RoleField, Field("content", c)>> : c \in SampleContents}
        \cup {<<RoleField>>}
        \cup {<<RoleField, Field("name", StrVal(<<"b">>)), Field("content", StrVal(<<"a">>))>>}

MessageLists == SeqsUpTo(SampleMessages, MaxMessages)

LegacyOverhead == 4
DefaultOverhead == 3
EndOfMessageTokens == 3

TokensPerMessage_Same(m) == DefaultOverhead

TokensPerMessage(m) == IF m = "gpt-3.5-turbo-0301" THEN LegacyOverhead ELSE DefaultOverhead

\* encoding.encode(x) raises TypeError unless x is a str
EncodeRaises(v) == v.kind # "str"

\* one pass of `for item in value`
ItemRaises(item) == item.type = "text" /\ EncodeRaises(item.text)

ItemTokens_Image(enc, item) ==
    IF item.type = "text" THEN Len(Encode(enc, item.text.text))
    ELSE IF item.type = "image_url" THEN BaseTokens ELSE 0

ItemTokens(enc, item) ==
    IF item.type = "text" THEN Len(Encode(enc, item.text.text)) ELSE 0

RECURSIVE ItemsTokens(_, _)
ItemsTokens(enc, items) ==
    IF items = <<>> THEN 0
    ELSE ItemTokens(enc, Head(items)) + ItemsTokens(enc, Tail(items))

\* one pass of `for key, value in message.items()`
ValueRaises(v) ==
    IF v.kind = "list" THEN \E i \in 1..Len(v.items) : ItemRaises(v.items[i])
    ELSE EncodeRaises(v)

ValueTokens(enc, v) ==
    IF v.kind = "list" THEN ItemsTokens(enc, v.items) ELSE Len(Encode(enc, v.text))

InitMessages ==
    /\ messages \in MessageLists
    /\ model \in Models
    /\ encoding = ""
    /\ tokens_per_message = 0
    /\ num_tokens = 0
    /\ msg_i = 0 /\ field_i = 0
    /\ error = ""
    /\ mpc = "start"
    /\ ImageIdle /\ SplitIdle

MsgStart ==
    /\ mpc = "start"
    /\ encoding' = ResolveEncoding(model)
    /\ tokens_per_message' = TokensPerMessage(model)
    /\ num_tokens' = 0
    /\ msg_i' = 1
    /\ mpc' = "message"
    /\ UNCHANGED <<messages, field_i, error, model, image_vars, split_vars>>

MsgBegin ==
    /\ mpc = "message"
    /\ msg_i <= Len(messages)
    /\ num_tokens' = num_tokens + tokens_per_message
    /\ field_i' = 1
    /\ mpc' = "field"
    /\ UNCHANGED <<messages, tokens_per_message, msg_i, error, model, encoding,
                   image_vars, split_vars>>

MsgField ==
    /\ mpc = "field"
    /\ field_i <= Len(messages[msg_i])
    /\ ~ValueRaises(messages[msg_i][field_i].value)
    /\ num_tokens' = num_tokens + ValueTokens(encoding, messages[msg_i][field_i].value)
    /\ field_i' = field_i + 1
    /\ UNCHANGED <<messages, tokens_per_message, msg_i, error, mpc, model, encoding,
                   image_vars, split_vars>>

MsgFieldRaise ==
    /\ mpc = "field"
    /\ field_i <= Len(messages[msg_i])
    /\ ValueRaises(messages[msg_i][field_i].value)
    /\ error' = "TypeError"
    /\ mpc' = "raised"
    /\ UNCHANGED <<messages, tokens_per_message, num_tokens, msg_i, field_i, model,
                   encoding, image_vars, split_vars>>

MsgEnd ==
    /\ mpc = "field"
    /\ field_i > Len(messages[msg_i])
    /\ num_tokens' = num_tokens + EndOfMessageTokens
    /\ msg_i' = msg_i + 1
    /\ mpc' = "message"
    /\ UNCHANGED <<messages, tokens_per_message, field_i, error, model, encoding,
                   image_vars, split_vars>>

MsgReturn ==
    /\ mpc = "message"
    /\ msg_i > Len(messages)
    /\ mpc' = "done"
    /\ UNCHANGED <<messages, tokens_per_message, num_tokens, msg_i, field_i, error,
                   model, encoding, image_vars, split_vars>>

NextMessages == MsgStart \/ MsgBegin \/ MsgField \/ MsgFieldRaise \/ MsgEnd \/ MsgReturn

SpecMessages == InitMessages /\ [][NextMessages]_vars

(***************************************************************************)
(* Properties of calculate_image_tokens                                    *)
(***************************************************************************)
ImageReturned == ipc = "done"

\* the two resize stages in exact arithmetic: the anchored side lands on the
\* limit, the other side is truncated
ExactResize(w, h, limit, anchor) ==
    <<(w * limit) \div anchor, (h * limit) \div anchor>>

ExactStageOne(w, h) ==
    IF Max(w, h) > 2048 THEN ExactResize(w, h, 2048, Max(w, h)) ELSE <<w, h>>

ExactStageTwo(d) ==
    IF Min(d[1], d[2]) > 768 THEN ExactResize(d[1], d[2], 768, Min(d[1], d[2])) ELSE d

CeilDiv(a, b) == (a + b - 1) \div b

ExactImageTokens(w, h) ==
    LET d == ExactStageTwo(ExactStageOne(w, h))
    IN  CeilDiv(d[1], 512) * CeilDiv(d[2], 512) * 170 + 85

\* C1: for every detail other than "low" the result is tiles*170 + 85 of the
\* dimensions scaled so the larger side equals 2048 and then, from that
\* output, so the smaller side equals 768, each scaled dimension truncated.
C1_TilesOfExactResize ==
    (ImageReturned /\ detail # "low")
        => total_tokens = ExactImageTokens(image_args[1], image_args[2])

\* C6: with detail "low" the result is 85 whatever the dimensions.
C6_LowDetailIs85 ==
    (ImageReturned /\ detail = "low") => total_tokens = 85

C6_Witness ==
    /\ ImageReturned /\ detail = "low" /\ total_tokens = 85
    /\ image_args[1] > 2048 /\ image_args[2] > 768

\* C9: for width >= 1 and height >= 1 and detail other than "low" at least
\* one tile is charged, so the result is at least 255.
C9_AtLeastOneTile ==
    (ImageReturned /\ detail # "low" /\ image_args[1] >= 1 /\ image_args[2] >= 1)
        => total_tokens >= 255

\* C10: after the two stages the larger side is at most 2048 and the smaller
\* at most 768, and the result is 85 + 170*k with 0 <= k <= 8.
C10_Bounded ==
    /\ ipc = "masks" => (Max(width, height) <= 2048 /\ Min(width, height) <= 768)
    /\ ImageReturned => (\E k \in 0..8 : total_tokens = 85 + 170 * k)

C10_Witness ==
    /\ ImageReturned /\ total_tokens = 1445
    /\ Max(image_args[1], image_args[2]) > 2048

(***************************************************************************)
(* Properties of split_tokens_from_content                                 *)
(***************************************************************************)
SplitReturned == spc = "done"

\* C3: the returned token_count is at most max_tokens, and reason is
\* "length" if token_count = max_tokens and "stop" otherwise.
C3_WithinBudget ==
    SplitReturned =>
        /\ split_result.tokens <= max_tokens
        /\ split_result.reason = (IF split_result.tokens = max_tokens THEN "length" ELSE "stop")

C3_Witness ==
    /\ SplitReturned /\ max_tokens > 0 /\ Len(encoded_content) > max_tokens
    /\ split_result.tokens = max_tokens /\ split_result.reason = "length"

\* C4: with max_tokens <= 0 the result is exactly ("", 0, "length").
C4_NonPositiveBudget ==
    (SplitReturned /\ max_tokens <= 0)
        => split_result = [content |-> <<>>, tokens |-> 0, reason |-> "length"]

ReturnedTokenCount == Len(Encode(encoding, split_result.content))

MessagesReturned == mpc = "done"

RECURSIVE SumOver(_, _, _)
SumOver(Count(_, _), enc, seq) ==
    IF seq = <<>> THEN 0 ELSE Count(enc, Head(seq)) + SumOver(Count, enc, Tail(seq))

FieldCount(enc, field) == ValueTokens(enc, field.value)

Overhead(m) == IF m = "gpt-3.5-turbo-0301" THEN 4 ELSE 3

MessageCount(m, msg) == Overhead(m) + 3 + SumOver(FieldCount, ResolveEncoding(m), msg)

RECURSIVE MessagesCount(_, _)
MessagesCount(m, msgs) ==
    IF msgs = <<>> THEN 0 ELSE MessageCount(m, Head(msgs)) + MessagesCount(m, Tail(msgs))

RECURSIVE FieldTokenTotal(_, _)
FieldTokenTotal(m, msgs) ==
    IF msgs = <<>> THEN 0
    ELSE SumOver(FieldCount, ResolveEncoding(m), Head(msgs)) + FieldTokenTotal(m, Tail(msgs))

\* C2: the result is the sum over all messages of overhead + 3 + the token
\* counts of the message's field values, the overhead 4 for
\* "gpt-3.5-turbo-0301" and 3 otherwise: 0 for the empty list, and
\* n*(overhead+3) of fixed overhead for n messages.
C2_SumOverMessages ==
    MessagesReturned =>
        /\ num_tokens = MessagesCount(model, messages)
        /\ num_tokens - FieldTokenTotal(model, messages)
              = Len(messages) * ((IF model = "gpt-3.5-turbo-0301" THEN 4 ELSE 3) + 3)
        /\ messages = <<>> => num_tokens = 0

C2_Witness ==
    /\ MessagesReturned /\ Len(messages) = 2 /\ model = "gpt-3.5-turbo-0301"
    /\ num_tokens > 14

\* a message is malformed when it has no content field, a field value is
\* neither a string nor a list, or a text part carries no text string
HasContent(msg) == \E i \in 1..Len(msg) : msg[i].key = "content"

MalformedValue(v) ==
    \/ v.kind = "other"
    \/ v.kind = "list" /\ \E i \in 1..Len(v.items) :
          v.items[i].type = "text" /\ v.items[i].text.kind # "str"

MalformedMessage(msg) ==
    ~HasContent(msg) \/ \E i \in 1..Len(msg) : MalformedValue(msg[i].value)

Malformed(msgs) == \E i \in 1..Len(msgs) : MalformedMessage(msgs[i])

\* C7: a malformed message makes num_tokens_from_messages fail with
\* InvalidMessageFormat; it never returns a token count for such input.
C7_MalformedRejected ==
    (mpc \in {"done", "raised"} /\ Malformed(messages))
        => (mpc = "raised" /\ error = "InvalidMessageFormat")

\* the message list with every part whose type is not "text" removed
OnlyTextItems(v) ==
    IF v.kind = "list"
    THEN ListVal(SelectSeq(v.items, LAMBDA item : item.type = "text"))
    ELSE v

OnlyTextMessage(msg) == [i \in 1..Len(msg) |-> Field(msg[i].key, OnlyTextItems(msg[i].value))]

OnlyText(msgs) == [i \in 1..Len(msgs) |-> OnlyTextMessage(msgs[i])]

TextPartCount(enc, item) == IF item.type = "text" THEN Len(Encode(enc, item.text.text)) ELSE 0

TextOnlyFieldCount(enc, field) ==
    IF field.value.kind = "list" THEN SumOver(TextPartCount, enc, field.value.items)
    ELSE Len(Encode(enc, field.value.text))

TextOnlyMessageCount(m, msg) ==
    Overhead(m) + 3 + SumOver(TextOnlyFieldCount, ResolveEncoding(m), msg)

RECURSIVE TextOnlyCount(_, _)
TextOnlyCount(m, msgs) ==
    IF msgs = <<>> THEN 0
    ELSE TextOnlyMessageCount(m, Head(msgs)) + TextOnlyCount(m, Tail(msgs))

\* C8: image_url parts contribute 0: the total is that of the same list with
\* its image_url (and other non-text) parts removed, only the parts of type
\* "text" adding the token count of their text.
C8_ImagePartsAddNothing ==
    MessagesReturned => num_tokens = TextOnlyCount(model, OnlyText(messages))

C8_Witness ==
    /\ MessagesReturned
    /\ \E i \in 1..Len(messages) : \E j \in 1..Len(messages[i]) :
          LET v == messages[i][j].value
          IN  /\ v.kind = "list"
              /\ \E p \in 1..Len(v.items) : v.items[p].type = "image_url"
              /\ \E p \in 1..Len(v.items) : v.items[p].type = "text"
    /\ num_tokens > Len(messages) * 6

====
